---- MODULE Spec2Model ----
(***************************************************************************)
(* Model of serp_scraper.py: one run of main (query validation, the        *)
(* browser session, the two readiness polls, consent dismissal, the        *)
(* search, the optional extraction and summarization stages), and the two  *)
(* pure functions extract_text_from_html and the result extraction of      *)
(* summarize_text_with_llm over bounded input sets.                        *)
(*                                                                         *)
(* A Python str is a sequence of one-character strings; None is the        *)
(* one-element sequence <<"None">>, which is no string of the alphabet.    *)
(***************************************************************************)
EXTENDS Integers, Sequences, FiniteSets, TLC

VARIABLES
    pc,            \* position of the run in main / fetch_google_serp_html
    args,          \* argparse.Namespace returned by parse_args
    query,         \* main: query
    session,       \* the driver of fetch_google_serp_html: "none", "open", "quit"
    acquired,      \* number of sessions build_driver has returned
    quits,         \* number of driver.quit() calls
    now,           \* time.monotonic(), in units of poll_frequency
    end_time,      \* wait_for_condition: end_time
    polls,         \* wait_for_condition: the predicate's outcome at each poll, with the clock read by the loop guard
    wfc,           \* how wait_for_condition ended: "-", "return", "TimeoutException"
    loaded,        \* value returned by page_loaded: "-", TRUE, FALSE
    site,          \* which page_loaded call of fetch_google_serp_html is running: 0, 1, 2
    sel,           \* dismiss_consent: index of the selector of the loop
    tried,         \* dismiss_consent: selectors handed to wait.until, in order
    clicks,        \* dismiss_consent: button.click() calls, [sel, ok]
    absorbed,      \* best-effort failures the run went through
    located,       \* outcome of the wait for the query field: "-", "found", "timeout", "error"
    typed,         \* text sent to the query field, None before
    submitted,     \* Keys.ENTER sent
    err,           \* the exception propagating (or propagated) out of main, "none" otherwise
    html,          \* main: html
    written,       \* main: the markup was written (file or stdout)
    text_content,  \* main: text_content
    extractCalls,  \* calls of extract_text_from_html
    serviceCalls,  \* calls of client.responses.create
    response,      \* summarize_text_with_llm: response
    summary,       \* value returned by summarize_text_with_llm, None before
    exitCode       \* value returned by main, -1 before

vars == << pc, args, query, session, acquired, quits, now, end_time, polls, wfc,
           loaded, site, sel, tried, clicks, absorbed, located, typed, submitted,
           err, html, written, text_content, extractCalls, serviceCalls,
           response, summary, exitCode >>

(***************************************************************************)
(* Strings                                                                 *)
(***************************************************************************)
None == << "None" >>

WS == { " ", "\n" }

IsSpace(c) == c \in WS

Strs(alphabet, n) == UNION { [1..k -> alphabet] : k \in 0..n }

RECURSIVE LStrip(_)
LStrip(s) ==
    IF s = << >> THEN << >>
    ELSE IF IsSpace(Head(s)) THEN LStrip(Tail(s)) ELSE s

RECURSIVE RStrip(_)
RStrip(s) ==
    IF s = << >> THEN << >>
    ELSE IF IsSpace(s[Len(s)]) THEN RStrip(SubSeq(s, 1, Len(s) - 1)) ELSE s

\* str.strip()
Strip(s) == RStrip(LStrip(s))

\* truth value of an Optional[str]: None and "" are false
Truthy(s) == s # None /\ s # << >>

RECURSIVE Join(_, _)
\* sep.join(parts)
Join(parts, sep) ==
    IF parts = << >> THEN << >>
    ELSE IF Len(parts) = 1 THEN parts[1]
    ELSE parts[1] \o sep \o Join(Tail(parts), sep)

RECURSIVE SplitFrom(_, _, _, _)
SplitFrom(s, i, cur, acc) ==
    IF i > Len(s) THEN (IF cur = << >> THEN acc ELSE Append(acc, cur))
    ELSE IF s[i] = "\n" THEN SplitFrom(s, i + 1, << >>, Append(acc, cur))
    ELSE SplitFrom(s, i + 1, Append(cur, s[i]), acc)

\* str.splitlines(): no empty last line after a final line break
SplitLines(s) == SplitFrom(s, 1, << >>, << >>)

RECURSIVE StripEach(_)
StripEach(ss) ==
    IF ss = << >> THEN << >> ELSE << Strip(Head(ss)) >> \o StripEach(Tail(ss))

NonEmpty(s) == s # << >>

(***************************************************************************)
(* extract_text_from_html                                                  *)
(* The parsed markup is the sequence of its text nodes in document order,  *)
(* each with the tags that enclose it.                                     *)
(***************************************************************************)
MaxTextLen == 4
MaxShortLen == 1
MaxNodes == 2

TextChars == { "a", " ", "\n" }

RemovedTags == { "script", "style", "noscript", "template", "svg" }

Paths == { << "p" >>, << "script" >>, << "div", "svg" >> }

Nodes(n) == [ path : Paths, text : Strs(TextChars, n) ]

Markups ==
    { << >> } \cup { << n >> : n \in Nodes(MaxTextLen) }
              \cup UNION { [1..k -> Nodes(MaxShortLen)] : k \in 2..MaxNodes }

NoHtml == << [ path |-> << >>, text |-> None ] >>

\* tag.decompose() for every tag of the list: a text node goes with any enclosing removed tag
Decomposed(node) == \E i \in 1..Len(node.path) : node.path[i] \in RemovedTags

Decompose(doc) == SelectSeq(doc, LAMBDA n : ~Decomposed(n))

RECURSIVE NodeTexts(_)
NodeTexts(doc) ==
    IF doc = << >> THEN << >> ELSE << Head(doc).text >> \o NodeTexts(Tail(doc))

\* soup.get_text(separator="\n", strip=True)
GetText(doc) == Join(SelectSeq(StripEach(NodeTexts(doc)), NonEmpty), << "\n" >>)

\* [line.strip() for line in text.splitlines() if line.strip()]
KeepLinesDropsNothing(text) == SplitLines(text)

KeepLines(text) == SelectSeq(StripEach(SplitLines(text)), NonEmpty)

extract_text_from_html(doc) == Join(KeepLines(GetText(Decompose(doc))), << "\n" >>)

(***************************************************************************)
(* summarize_text_with_llm: the service response and the result extraction *)
(***************************************************************************)
MaxSegLen == 2
MaxPieces == 1
MaxBlocks == 2

SumChars == { "a", "b", " " }

\* a value that is not a str (isinstance(content, str) is false)
NotAStr == << "list" >>

Pieces(n) == [ type : { "text", "refusal" }, text : Strs(SumChars, n) ]

MessageBlocks(k, n) ==
    [ type : { "message" },
      pieces : UNION { [1..j -> Pieces(n)] : j \in 0..k },
      content : { None } ]

OutputTextBlocks(n) ==
    [ type : { "output_text" }, pieces : { << >> },
      content : Strs(SumChars, n) \cup { NotAStr } ]

OtherBlocks == [ type : { "reasoning" }, pieces : { << >> }, content : { None } ]

Blocks(k, n) == MessageBlocks(k, n) \cup OutputTextBlocks(n) \cup OtherBlocks

Outputs ==
    { << >> } \cup { << b >> : b \in Blocks(MaxPieces, MaxSegLen) }
              \cup UNION { [1..k -> Blocks(1, MaxShortLen)] : k \in 2..MaxBlocks }

\* responses without a usable consolidated field carry any output; the others at most one block
Responses ==
    [ output_text : { None, << >> }, output : Outputs ]
    \cup [ output_text : Strs(SumChars, MaxSegLen),
           output : { << >> } \cup { << b >> : b \in Blocks(1, MaxShortLen) } ]

NoResponse == [ output_text |-> << "unset" >>, output |-> << >> ]

RECURSIVE PieceTexts(_)
\* for piece in block.content: if piece.type == "text": texts.append(piece.text)
PieceTexts(pieces) ==
    IF pieces = << >> THEN << >>
    ELSE (IF Head(pieces).type = "text" THEN << Head(pieces).text >> ELSE << >>)
         \o PieceTexts(Tail(pieces))

\* what one block of response.output appends to texts
BlockTextsMessageOnly(block) ==
    IF block.type = "message" THEN PieceTexts(block.pieces) ELSE << >>

BlockTexts(block) ==
    IF block.type = "message" THEN PieceTexts(block.pieces)
    ELSE IF block.type = "output_text" /\ block.content \notin { None, NotAStr }
         THEN << block.content >>
    ELSE << >>

RECURSIVE CollectTexts(_)
\* for block in getattr(response, "output", []): ...
CollectTexts(output) ==
    IF output = << >> THEN << >>
    ELSE BlockTexts(Head(output)) \o CollectTexts(Tail(output))

\* "\n\n".join(segment.strip() for segment in texts if segment.strip())
Cleaned(texts) == Join(SelectSeq(StripEach(texts), NonEmpty), << "\n", "\n" >>)

\* the consolidated field is used when it is truthy
UsesOutputText(output_text) == Truthy(output_text)

\* lines 153-171: the value returned, or the RuntimeError
ResultOf(resp) ==
    IF UsesOutputText(resp.output_text)
    THEN [ raised |-> FALSE, value |-> Strip(resp.output_text) ]
    ELSE LET cleaned == Cleaned(CollectTexts(resp.output))
         IN  IF cleaned = << >>
             THEN [ raised |-> TRUE, value |-> None ]
             ELSE [ raised |-> FALSE, value |-> cleaned ]

(***************************************************************************)
(* The run of main                                                         *)
(***************************************************************************)
MaxArgLen == 2
PollTimeout == 2
MaxDelay == 1

ArgChars == { "a", " " }

\* parse_args: the positional query and --objective are None when absent; the other
\* options choose destinations and service parameters and no branch of the run
Args ==
    [ query : { None } \cup Strs(ArgChars, MaxArgLen),
      objective : { None } \cup Strs(ArgChars, MaxArgLen - 1) ]

CONSENT_SELECTORS ==
    << "id=L2AGLb",
       "css=button[aria-label='Aceptar todo']",
       "css=button[aria-label='Aceptarlo todo']",
       "xpath=//button/span[contains(., 'Acepto')]",
       "xpath=//button[contains(., 'Aceptar todo')]" >>

\* markup the browser may hand back in a run of main
MainMarkups ==
    { << >>,
      << [ path |-> << "p" >>, text |-> << "a", " ", "\n", "a" >> ] >>,
      << [ path |-> << "script" >>, text |-> << "a" >> ],
         [ path |-> << "p" >>, text |-> << " " >> ] >> }

\* responses the service may hand back in a run of main
MainResponses ==
    { [ output_text |-> << "a" >>, output |-> << >> ],
      [ output_text |-> << " " >>, output |-> << >> ],
      [ output_text |-> None, output |-> << >> ],
      [ output_text |-> None,
        output |-> << [ type |-> "output_text", pieces |-> << >>, content |-> << "b" >> ] >> ] }

Unset ==
    /\ query = None
    /\ session = "none" /\ acquired = 0 /\ quits = 0
    /\ now = 0 /\ end_time = 0 /\ polls = << >> /\ wfc = "-" /\ loaded = "-" /\ site = 0
    /\ sel = 0 /\ tried = << >> /\ clicks = << >>
    /\ absorbed = { }
    /\ located = "-" /\ typed = None /\ submitted = FALSE
    /\ err = "none"
    /\ written = FALSE
    /\ text_content = None /\ extractCalls = 0
    /\ summary = None /\ exitCode = -1

Init ==
    /\ pc = "start"
    /\ args \in Args
    /\ html = NoHtml
    /\ response = NoResponse
    /\ serviceCalls = 0
    /\ Unset

\* variable groups left alone by the steps
mainVars == << args, query, written, text_content, extractCalls, serviceCalls,
               response, summary, exitCode >>
pollVars == << now, end_time, polls, wfc, loaded, site >>
consentVars == << sel, tried, clicks >>
boxVars == << located, typed, submitted >>
driverVars == << session, acquired, quits >>

\* if not query
Rejects(q) == q = << >>

\* query = args.query or input(...).strip()
Main_ReadQuery ==
    /\ pc = "start"
    /\ IF Truthy(args.query)
       THEN query' = args.query
       ELSE \E typedIn \in Strs(ArgChars, MaxArgLen) : query' = Strip(typedIn)
    /\ pc' = "validate"
    /\ UNCHANGED << args, written, text_content, extractCalls, serviceCalls, response,
                    summary, exitCode, pollVars, consentVars, boxVars, driverVars,
                    absorbed, err, html >>

\* if not query: ... return 1
Main_Validate ==
    /\ pc = "validate"
    /\ IF Rejects(query)
       THEN pc' = "exit" /\ exitCode' = 1
       ELSE pc' = "build_driver" /\ exitCode' = exitCode
    /\ UNCHANGED << args, query, written, text_content, extractCalls, serviceCalls,
                    response, summary, pollVars, consentVars, boxVars, driverVars,
                    absorbed, err, html >>

\* where a statement raising inside the try block of fetch_google_serp_html goes
RaiseSkipsFinally == "raised"

RaiseInTry == "finally"

\* driver = build_driver(headless=headless)
Fetch_BuildDriver ==
    /\ pc = "build_driver"
    /\ \/ /\ session' = "open" /\ acquired' = acquired + 1
          /\ pc' = "get" /\ err' = err
       \/ /\ err' = "build_driver" /\ pc' = "raised"
          /\ UNCHANGED << session, acquired >>
    /\ UNCHANGED << mainVars, pollVars, consentVars, boxVars, quits, absorbed, html >>

\* driver.get("https://www.google.com/?hl=es")
Fetch_Get ==
    /\ pc = "get"
    /\ \/ pc' = "page_loaded" /\ site' = 1 /\ err' = err
       \/ pc' = RaiseInTry /\ err' = "get" /\ site' = site
    /\ UNCHANGED << mainVars, now, end_time, polls, wfc, loaded, consentVars, boxVars,
                    driverVars, absorbed, html >>

(***************************************************************************)
(* page_loaded over wait_for_condition                                     *)
(***************************************************************************)
\* page_loaded(driver): wait_for_condition(..., timeout=timeout): end_time = time.monotonic() + timeout
PageLoaded_Call ==
    /\ pc = "page_loaded"
    /\ end_time' = now + PollTimeout
    /\ polls' = << >>
    /\ pc' = "poll_guard"
    /\ UNCHANGED << mainVars, now, wfc, loaded, site, consentVars, boxVars, driverVars,
                    absorbed, err, html >>

\* while time.monotonic() < end_time
GuardTestedLate(t, deadline) == t <= deadline + 1

Guard(t, deadline) == t < deadline

\* the loop guard; raise TimeoutException when it fails
Wait_Guard ==
    /\ pc = "poll_guard"
    /\ IF Guard(now, end_time)
       THEN pc' = "poll_eval" /\ wfc' = wfc
       ELSE pc' = "poll_done" /\ wfc' = "TimeoutException"
    /\ UNCHANGED << mainVars, now, end_time, polls, loaded, site, consentVars, boxVars,
                    driverVars, absorbed, err, html >>

\* try: if predicate(driver): return; except Exception: pass
Wait_Eval ==
    /\ pc = "poll_eval"
    /\ \E outcome \in { "true", "false", "raise" }, d \in 0..MaxDelay :
          /\ polls' = Append(polls, [ at |-> now, result |-> outcome ])
          /\ now' = now + d
          /\ IF outcome = "true"
             THEN pc' = "poll_done" /\ wfc' = "return"
             ELSE pc' = "poll_sleep" /\ wfc' = wfc
    /\ UNCHANGED << mainVars, end_time, loaded, site, consentVars, boxVars, driverVars,
                    absorbed, err, html >>

\* time.sleep(poll_frequency): at least one poll interval
Wait_Sleep ==
    /\ pc = "poll_sleep"
    /\ \E d \in 0..MaxDelay : now' = now + 1 + d
    /\ pc' = "poll_guard"
    /\ UNCHANGED << mainVars, end_time, polls, wfc, loaded, site, consentVars, boxVars,
                    driverVars, absorbed, err, html >>

\* except TimeoutException: return False
PageLoadedCatchesNothing(exc) == FALSE

PageLoadedCatches(exc) == exc = "TimeoutException"

\* page_loaded: return True / except TimeoutException: return False
PageLoaded_Return ==
    /\ pc = "poll_done"
    /\ IF wfc = "return"
       THEN loaded' = TRUE /\ pc' = "page_loaded_ret" /\ UNCHANGED << absorbed, err >>
       ELSE IF PageLoadedCatches(wfc)
       THEN /\ loaded' = FALSE /\ pc' = "page_loaded_ret"
            /\ absorbed' = absorbed \cup { IF site = 1 THEN "ready1" ELSE "ready2" }
            /\ err' = err
       ELSE /\ loaded' = loaded /\ pc' = RaiseInTry
            /\ err' = "page_loaded" /\ absorbed' = absorbed
    /\ UNCHANGED << mainVars, now, end_time, polls, wfc, site, consentVars, boxVars,
                    driverVars, html >>

\* fetch_google_serp_html drops the value of page_loaded(driver) and goes on
Fetch_AfterPageLoaded ==
    /\ pc = "page_loaded_ret"
    /\ end_time' = 0 /\ polls' = << >> /\ wfc' = "-" /\ loaded' = "-"
    /\ IF site = 1
       THEN pc' = "consent" /\ sel' = 1
       ELSE pc' = "page_source" /\ sel' = sel
    /\ UNCHANGED << mainVars, now, site, tried, clicks, boxVars, driverVars,
                    absorbed, err, html >>

(***************************************************************************)
(* dismiss_consent                                                         *)
(***************************************************************************)
\* except TimeoutException: continue / except Exception: continue
ConsentCatches(exc) == exc \in { "TimeoutException", "WebDriverException" }

\* button.click(); return
ClickThenContinue == "consent_next"

AfterClick == "consent_ret"

\* an exception inside the loop body of dismiss_consent: continue, or out of the function
Consent_Raise(exc) ==
    IF ConsentCatches(exc)
    THEN /\ pc' = "consent" /\ sel' = sel + 1
         /\ absorbed' = absorbed \cup { "consent" } /\ err' = err
    ELSE /\ pc' = RaiseInTry /\ sel' = sel
         /\ absorbed' = absorbed /\ err' = "dismiss_consent"

\* button = wait.until(EC.element_to_be_clickable((by, selector)))
Consent_Wait ==
    /\ pc = "consent"
    /\ sel <= Len(CONSENT_SELECTORS)
    /\ tried' = Append(tried, sel)
    /\ \/ /\ pc' = "consent_click"
          /\ UNCHANGED << sel, absorbed, err >>
       \/ \E exc \in { "TimeoutException", "WebDriverException" } : Consent_Raise(exc)
    /\ UNCHANGED << mainVars, pollVars, clicks, boxVars, driverVars, html >>

\* button.click()
Consent_Click ==
    /\ pc = "consent_click"
    /\ \/ /\ clicks' = Append(clicks, [ sel |-> sel, ok |-> TRUE ])
          /\ IF AfterClick = "consent_ret"
             THEN pc' = "consent_ret" /\ sel' = sel
             ELSE pc' = "consent" /\ sel' = sel + 1
          /\ UNCHANGED << absorbed, err >>
       \/ /\ clicks' = Append(clicks, [ sel |-> sel, ok |-> FALSE ])
          /\ Consent_Raise("WebDriverException")
    /\ UNCHANGED << mainVars, pollVars, tried, boxVars, driverVars, html >>

\* the for loop ends with no selector left
Consent_Exhausted ==
    /\ pc = "consent"
    /\ sel > Len(CONSENT_SELECTORS)
    /\ pc' = "consent_ret"
    /\ UNCHANGED << mainVars, pollVars, consentVars, boxVars, driverVars, absorbed,
                    err, html >>

\* dismiss_consent returns None to fetch_google_serp_html
Fetch_AfterConsent ==
    /\ pc = "consent_ret"
    /\ sel' = 0 /\ tried' = << >> /\ clicks' = << >>
    /\ pc' = "locate"
    /\ UNCHANGED << mainVars, pollVars, boxVars, driverVars, absorbed, err, html >>

(***************************************************************************)
(* fetch_google_serp_html: the query field, the markup, the finally clause *)
(***************************************************************************)
\* wait.until(EC.presence_of_element_located(...)) raises TimeoutException: out of the try block
LocateTimeoutAbsorbed == "clear"

LocateTimeout == RaiseInTry

\* search_box = wait.until(EC.presence_of_element_located((By.XPATH, '//*[@id="APjFqb"]')))
Fetch_Locate ==
    /\ pc = "locate"
    /\ \/ located' = "found" /\ pc' = "clear" /\ err' = err
       \/ /\ located' = "timeout" /\ pc' = LocateTimeout
          /\ err' = IF LocateTimeout = RaiseInTry THEN "locate" ELSE err
       \/ located' = "error" /\ pc' = RaiseInTry /\ err' = "locate"
    /\ UNCHANGED << mainVars, pollVars, consentVars, typed, submitted, driverVars,
                    absorbed, html >>

\* search_box.clear()
Fetch_Clear ==
    /\ pc = "clear"
    /\ \/ pc' = "send_keys" /\ err' = err
       \/ pc' = RaiseInTry /\ err' = "clear"
    /\ UNCHANGED << mainVars, pollVars, consentVars, boxVars, driverVars, absorbed, html >>

\* search_box.send_keys(query)
Fetch_SendKeys ==
    /\ pc = "send_keys"
    /\ \/ typed' = query /\ pc' = "submit" /\ err' = err
       \/ typed' = typed /\ pc' = RaiseInTry /\ err' = "send_keys"
    /\ UNCHANGED << mainVars, pollVars, consentVars, located, submitted, driverVars,
                    absorbed, html >>

\* search_box.send_keys(Keys.ENTER), then the second page_loaded(driver)
Fetch_Submit ==
    /\ pc = "submit"
    /\ \/ submitted' = TRUE /\ pc' = "page_loaded" /\ site' = 2 /\ err' = err
       \/ submitted' = submitted /\ pc' = RaiseInTry /\ site' = site /\ err' = "submit"
    /\ UNCHANGED << mainVars, now, end_time, polls, wfc, loaded, consentVars, located,
                    typed, driverVars, absorbed >>
    /\ html' = html

\* return driver.page_source
Fetch_PageSource ==
    /\ pc = "page_source"
    /\ \/ \E markup \in MainMarkups : html' = markup /\ pc' = "finally" /\ err' = err
       \/ html' = html /\ pc' = RaiseInTry /\ err' = "page_source"
    /\ UNCHANGED << mainVars, pollVars, consentVars, boxVars, driverVars, absorbed >>

\* finally: driver.quit(); then the return value or the exception reaches main
Fetch_Finally ==
    /\ pc = "finally"
    /\ quits' = quits + 1
    /\ session' = "quit"
    /\ \/ /\ err' = err /\ html' = html
          /\ pc' = IF err = "none" THEN "write" ELSE "raised"
       \/ err' = "quit" /\ html' = NoHtml /\ pc' = "raised"
    /\ UNCHANGED << mainVars, pollVars, consentVars, boxVars, acquired, absorbed >>

(***************************************************************************)
(* main after the search                                                   *)
(***************************************************************************)
\* args.output.write_text(html) or sys.stdout.write(html)
Main_WriteHtml ==
    /\ pc = "write"
    /\ \/ written' = TRUE /\ pc' = "objective" /\ err' = err
       \/ written' = written /\ pc' = "raised" /\ err' = "write"
    /\ UNCHANGED << args, query, text_content, extractCalls, serviceCalls, response,
                    summary, exitCode, pollVars, consentVars, boxVars, driverVars,
                    absorbed, html >>

\* if args.objective
StagesAlwaysRun(objective) == TRUE

StagesRun(objective) == Truthy(objective)

\* if args.objective: ... / return 0
Main_Objective ==
    /\ pc = "objective"
    /\ IF StagesRun(args.objective)
       THEN pc' = "extract" /\ exitCode' = exitCode
       ELSE pc' = "exit" /\ exitCode' = 0
    /\ UNCHANGED << args, query, written, text_content, extractCalls, serviceCalls,
                    response, summary, pollVars, consentVars, boxVars, driverVars,
                    absorbed, err, html >>

\* text_content = extract_text_from_html(html)
Main_Extract ==
    /\ pc = "extract"
    /\ text_content' = extract_text_from_html(html)
    /\ extractCalls' = extractCalls + 1
    /\ pc' = "summarize"
    /\ UNCHANGED << args, query, written, serviceCalls, response, summary, exitCode,
                    pollVars, consentVars, boxVars, driverVars, absorbed, err, html >>

\* response = client.responses.create(...)
Summarize_Create ==
    /\ pc = "summarize"
    /\ serviceCalls' = serviceCalls + 1
    /\ \/ \E resp \in MainResponses : response' = resp /\ pc' = "result" /\ err' = err
       \/ response' = response /\ pc' = "raised" /\ err' = "service"
    /\ UNCHANGED << args, query, written, text_content, extractCalls, summary, exitCode,
                    pollVars, consentVars, boxVars, driverVars, absorbed, html >>

\* lines 153-171 of summarize_text_with_llm
Summarize_Result ==
    /\ pc = "result"
    /\ LET r == ResultOf(response)
       IN  IF r.raised
           THEN summary' = summary /\ pc' = "raised" /\ err' = "no_text"
           ELSE summary' = r.value /\ pc' = "write_summary" /\ err' = err
    /\ UNCHANGED << args, query, written, text_content, extractCalls, serviceCalls,
                    response, exitCode, pollVars, consentVars, boxVars, driverVars,
                    absorbed, html >>

\* args.summary_output.write_text(summary) or print(summary); return 0
Main_WriteSummary ==
    /\ pc = "write_summary"
    /\ \/ pc' = "exit" /\ exitCode' = 0 /\ err' = err
       \/ pc' = "raised" /\ exitCode' = exitCode /\ err' = "write_summary"
    /\ UNCHANGED << args, query, written, text_content, extractCalls, serviceCalls,
                    response, summary, pollVars, consentVars, boxVars, driverVars,
                    absorbed, html >>

Next ==
    \/ Main_ReadQuery \/ Main_Validate
    \/ Fetch_BuildDriver \/ Fetch_Get
    \/ PageLoaded_Call \/ Wait_Guard \/ Wait_Eval \/ Wait_Sleep
    \/ PageLoaded_Return \/ Fetch_AfterPageLoaded
    \/ Consent_Wait \/ Consent_Click \/ Consent_Exhausted \/ Fetch_AfterConsent
    \/ Fetch_Locate \/ Fetch_Clear \/ Fetch_SendKeys \/ Fetch_Submit
    \/ Fetch_PageSource \/ Fetch_Finally
    \/ Main_WriteHtml \/ Main_Objective \/ Main_Extract
    \/ Summarize_Create \/ Summarize_Result \/ Main_WriteSummary

Spec == Init /\ [][Next]_vars

(***************************************************************************)
(* The pure functions over their bounded inputs                            *)
(***************************************************************************)
InitExtract ==
    /\ pc = "extract"
    /\ args = [ query |-> << "a" >>, objective |-> << "a" >> ]
    /\ html \in Markups
    /\ response = NoResponse
    /\ serviceCalls = 0
    /\ Unset

NextExtract == Main_Extract

SpecExtract == InitExtract /\ [][NextExtract]_vars

InitSummarize ==
    /\ pc = "result"
    /\ args = [ query |-> << "a" >>, objective |-> << "a" >> ]
    /\ html = NoHtml
    /\ response \in Responses
    /\ serviceCalls = 1
    /\ Unset

NextSummarize == Summarize_Result

SpecSummarize == InitSummarize /\ [][NextSummarize]_vars

\* page_loaded alone: the two calls of fetch_google_serp_html, at any reading of the clock
InitPoll ==
    /\ pc = "page_loaded"
    /\ args = [ query |-> << "a" >>, objective |-> None ]
    /\ query = << "a" >>
    /\ session = "open" /\ acquired = 1 /\ quits = 0
    /\ now \in 0..MaxDelay
    /\ end_time = 0 /\ polls = << >> /\ wfc = "-" /\ loaded = "-"
    /\ site \in { 1, 2 }
    /\ sel = 0 /\ tried = << >> /\ clicks = << >>
    /\ IF site = 1
       THEN absorbed = { } /\ located = "-" /\ typed = None /\ submitted = FALSE
       ELSE /\ absorbed \in SUBSET { "ready1", "consent" }
            /\ located = "found" /\ typed = query /\ submitted = TRUE
    /\ err = "none"
    /\ html = NoHtml /\ written = FALSE
    /\ text_content = None /\ extractCalls = 0
    /\ response = NoResponse /\ serviceCalls = 0
    /\ summary = None /\ exitCode = -1

NextPoll ==
    \/ PageLoaded_Call \/ Wait_Guard \/ Wait_Eval \/ Wait_Sleep \/ PageLoaded_Return

\* single-threaded and every call blocking: the poll takes its next step while it has one
SpecPoll == InitPoll /\ [][NextPoll]_vars /\ WF_vars(NextPoll)

(***************************************************************************)
(* Claims                                                                  *)
(***************************************************************************)
\* positions inside fetch_google_serp_html, after build_driver has returned
InFetch ==
    { "get", "page_loaded", "poll_guard", "poll_eval", "poll_sleep", "poll_done",
      "page_loaded_ret", "consent", "consent_click", "consent_ret", "locate", "clear",
      "send_keys", "submit", "page_source", "finally" }

\* positions of main before fetch_google_serp_html is called
BeforeFetch == { "start", "validate", "build_driver" }

FetchOver == pc \notin InFetch /\ pc \notin BeforeFetch

\* C1: every session build_driver returns is released by driver.quit() exactly once by
\* the time fetch_google_serp_html has returned or raised, and never before its finally clause
C1_SessionReleasedOnce ==
    /\ acquired <= 1
    /\ quits <= acquired
    /\ (pc \in InFetch /\ pc # "finally") => (acquired = 1 /\ quits = 0 /\ session = "open")
    /\ (FetchOver \/ pc = "exit" \/ pc = "raised") => (quits = acquired)
    /\ (quits = 1) => session = "quit"

C1_Witness_RaisedAndReleased ==
    pc = "raised" /\ err = "locate" /\ acquired = 1 /\ quits = 1 /\ session = "quit"

\* C2: a query that is empty or all-whitespace is rejected with exit code 1 before any
\* session is acquired: past validation, a blank query means main returned 1 with no session
C2_BlankQueryRejected ==
    (pc \notin { "start", "validate" } /\ Strip(query) = << >>)
        => (pc = "exit" /\ exitCode = 1 /\ acquired = 0)

\* C3 as stated: a completed run called the service and the extraction exactly when
\* --objective was present on the command line
C3_StagesIffObjectivePresent ==
    /\ (args.objective = None) => (serviceCalls = 0 /\ extractCalls = 0)
    /\ (pc = "exit" /\ exitCode = 0)
          => ((serviceCalls = 1 /\ extractCalls = 1) <=> args.objective # None)

\* C3 amended: with the markup written, the stages run and the service is called (once)
\* exactly when --objective has a non-empty value; otherwise the service is never called
C3_StagesIffObjectiveNonEmpty ==
    /\ serviceCalls <= 1 /\ extractCalls <= 1
    /\ (serviceCalls > 0 \/ extractCalls > 0) => (Truthy(args.objective) /\ written)
    /\ (pc = "exit" /\ exitCode = 0)
          => ((serviceCalls = 1 /\ extractCalls = 1) <=> Truthy(args.objective))
    /\ (written /\ Truthy(args.objective) /\ pc \notin { "objective", "extract" })
          => extractCalls = 1
    /\ (written /\ Truthy(args.objective) /\ pc \notin { "objective", "extract", "summarize" })
          => serviceCalls = 1

C3_Witness_ObjectiveRunsStages ==
    /\ pc = "exit" /\ exitCode = 0 /\ Truthy(args.objective)
    /\ serviceCalls = 1 /\ extractCalls = 1

\* C4: summarize_text_with_llm never returns an empty or whitespace-only summary
C4_SummaryNeverBlank ==
    (pc = "write_summary") => (summary # None /\ Strip(summary) # << >>)

\* the reference result-extraction policy, written from its description
RefTrim(s) ==
    LET inked == { i \in 1..Len(s) : s[i] \notin WS }
    IN  IF inked = { } THEN << >>
        ELSE SubSeq(s, CHOOSE i \in inked : \A j \in inked : i <= j,
                       CHOOSE i \in inked : \A j \in inked : i >= j)

RefBlockSegments(block) ==
    IF block.type = "message"
    THEN LET ps == SelectSeq(block.pieces, LAMBDA p : p.type = "text")
         IN  [ i \in 1..Len(ps) |-> RefTrim(ps[i].text) ]
    ELSE IF block.type = "output_text" /\ block.content # NotAStr /\ block.content # None
    THEN << RefTrim(block.content) >>
    ELSE << >>

RECURSIVE RefAllSegments(_)
RefAllSegments(output) ==
    IF output = << >> THEN << >>
    ELSE RefAllSegments(SubSeq(output, 1, Len(output) - 1))
         \o RefBlockSegments(output[Len(output)])

RefSegments(output) == SelectSeq(RefAllSegments(output), LAMBDA t : Len(t) > 0)

RECURSIVE RefJoinBlank(_)
RefJoinBlank(segs) ==
    IF Len(segs) = 0 THEN << >>
    ELSE IF Len(segs) = 1 THEN segs[1]
    ELSE RefJoinBlank(SubSeq(segs, 1, Len(segs) - 1)) \o << "\n", "\n" >> \o segs[Len(segs)]

\* C5 as stated: a consolidated field the service provides is returned as it is, the blocks
\* ignored; otherwise the trimmed non-empty segments, in order, joined by a blank line
C5_ReturnsReferencePolicy ==
    (pc = "write_summary")
        => summary = IF response.output_text # None
                     THEN response.output_text
                     ELSE RefJoinBlank(RefSegments(response.output))

\* C5 amended: a non-empty consolidated field is returned trimmed, the blocks ignored; an
\* absent or empty one gives the trimmed non-empty segments, in order, joined by a blank
\* line, and the 'no usable text' error when there is none
C5_ReturnsAmendedPolicy ==
    (pc = "write_summary" \/ (pc = "raised" /\ err = "no_text"))
        => IF response.output_text # None /\ Len(response.output_text) > 0
           THEN pc = "write_summary" /\ summary = RefTrim(response.output_text)
           ELSE LET segs == RefSegments(response.output)
                IN  IF segs = << >>
                    THEN pc = "raised" /\ summary = None
                    ELSE pc = "write_summary" /\ summary = RefJoinBlank(segs)

C5_Witness_EmptyFieldFallsBack ==
    /\ pc = "write_summary"
    /\ response.output_text = << >>
    /\ Len(RefSegments(response.output)) = 2
    /\ summary = RefJoinBlank(RefSegments(response.output))

\* a string with no empty or whitespace-only line and no line with leading or trailing whitespace
CleanLines(out) ==
    \/ out = << >>
    \/ /\ out[1] \notin WS
       /\ out[Len(out)] \notin WS
       /\ \A i \in 1..Len(out) :
             out[i] = "\n" => (out[i - 1] \notin WS /\ out[i + 1] \notin WS)

\* C8: the output of extract_text_from_html has no empty or whitespace-only line and no
\* line with leading or trailing whitespace
C8_NoBlankLines ==
    (extractCalls > 0) => (text_content # None /\ CleanLines(text_content))

C8_Witness_LinePassDidWork ==
    /\ extractCalls = 1
    /\ text_content # << >>
    /\ text_content # GetText(Decompose(html))
    /\ \E i \in 1..Len(text_content) : text_content[i] = "\n"

\* C6: when the query field is not located within the timeout, fetch_google_serp_html
\* raises, and nothing is typed or submitted, the second readiness wait is not started and
\* no markup is returned; typing, submitting and reading the markup come after the field
C6_QueryFieldRequired ==
    /\ (located = "timeout")
          => /\ pc \in { "finally", "raised" }
             /\ err \in { "locate", "quit" }
             /\ typed = None /\ ~submitted /\ site # 2
             /\ html = NoHtml /\ ~written /\ exitCode = -1
    /\ (typed # None \/ submitted \/ site = 2 \/ html # NoHtml) => located = "found"
    /\ (pc \in { "clear", "send_keys", "submit", "page_source" }) => located = "found"

C6_Witness_FieldNotLocated ==
    located = "timeout" /\ pc = "raised" /\ err = "locate" /\ quits = 1

\* C7: no outcome of the two readiness waits or of the consent dismissal surfaces as an
\* error or stops the search: each is followed by the next step, and once the query field
\* is located only the required steps can keep the markup from being returned
C7_BestEffortNeverAborts ==
    /\ err \notin { "page_loaded", "dismiss_consent" }
    /\ (pc \in { "page_loaded_ret", "consent", "consent_click", "consent_ret", "locate" })
          => err = "none"
    /\ (pc = "page_loaded_ret") => loaded \in BOOLEAN
    /\ (located = "found" /\ FetchOver /\ html = NoHtml)
          => (pc = "raised" /\ err \in { "clear", "send_keys", "submit", "page_source", "quit" })
    /\ (located = "found" /\ FetchOver /\ html # NoHtml)
          => err \notin { "clear", "send_keys", "submit", "page_source", "quit", "locate", "get" }

C7_Witness_AllAbsorbedMarkupReturned ==
    /\ absorbed = { "ready1", "consent", "ready2" }
    /\ pc = "write" /\ html # NoHtml /\ err = "none"

\* C9 as stated: at most one click is issued per call, and dismissal stops at the click
C9_OneClickThenStop ==
    /\ Len(clicks) <= 1
    /\ (clicks # << >>) => pc = "consent_ret"

\* C9 amended: the selectors are tried in the order of CONSENT_SELECTORS, each at most
\* once; a click that raises is absorbed and the next selector is tried; the first click
\* that completes ends the dismissal, so at most one click succeeds and it is the last
C9_FirstCompletedClickStops ==
    /\ Len(tried) <= Len(CONSENT_SELECTORS)
    /\ \A i \in 1..Len(tried) : tried[i] = i
    /\ Len(clicks) <= Len(tried)
    /\ \A i \in 1..Len(clicks) :
          /\ clicks[i].sel \in 1..Len(tried)
          /\ \A j \in 1..Len(clicks) : i < j => clicks[i].sel < clicks[j].sel
          /\ clicks[i].ok => /\ i = Len(clicks)
                             /\ clicks[i].sel = Len(tried)
                             /\ pc = "consent_ret"
    /\ (pc = "consent_ret" /\ (clicks = << >> \/ ~clicks[Len(clicks)].ok))
          => Len(tried) = Len(CONSENT_SELECTORS)

C9_Witness_ClickAfterFailedClick ==
    /\ pc = "consent_ret"
    /\ Len(clicks) = 2
    /\ ~clicks[1].ok /\ clicks[2].ok
    /\ Len(tried) < Len(CONSENT_SELECTORS)

\* the state of a readiness poll: every evaluation of the predicate follows a clock reading
\* before the deadline, only the last poll can be true, the polls are bounded by the timeout,
\* and page_loaded returns True exactly on a true poll and False only past the deadline
PollOutcome ==
    /\ err # "page_loaded"
    /\ Len(polls) <= PollTimeout
    /\ \A i \in 1..Len(polls) :
          /\ polls[i].at < end_time
          /\ (i < Len(polls)) => polls[i].result # "true"
    /\ (pc = "poll_eval") => now < end_time
    /\ (pc = "page_loaded_ret")
          => /\ loaded \in BOOLEAN
             /\ loaded = (polls # << >> /\ polls[Len(polls)].result = "true")
             /\ (loaded = FALSE) => now >= end_time

InPoll == pc \in { "page_loaded", "poll_guard", "poll_eval", "poll_sleep", "poll_done" }

\* C10: the readiness poll always terminates and reports its outcome as a value: True at
\* the first poll, made before the deadline, that is true, False once the timeout has
\* elapsed (also when every poll raises), the predicate never evaluated past the deadline
C10_PollTerminatesWithValue ==
    /\ []PollOutcome
    /\ (InPoll ~> (pc = "page_loaded_ret"))

C10_Witness_EveryPollRaisesGivesFalse ==
    /\ pc = "page_loaded_ret"
    /\ loaded = FALSE
    /\ Len(polls) = PollTimeout
    /\ \A i \in 1..Len(polls) : polls[i].result = "raise"

====
